---- MODULE Spec2Model ----
(***************************************************************************)
(* Model of fms_dgt/base/block.py: BaseBlock (field routing: projection of *)
(* a row into positional / keyword arguments, result write and read) and   *)
(* BaseValidatorBlock (the filter-capable generate loop).                  *)
(*                                                                         *)
(* Python values are modelled by their literals as strings ("None",        *)
(* "True", "False", "0", "1", ...).  A dict is a function from its keys to *)
(* values.  A call that raises is a record whose status is the name of the *)
(* exception class; a call that returns has status "ok".                   *)
(***************************************************************************)
EXTENDS Naturals, Sequences, FiniteSets, TLC

VARIABLES blk, rows, last, prev, written

vars == <<blk, rows, last, prev, written>>

(***************************************************************************)
(* Bounds                                                                  *)
(***************************************************************************)
\* longest row collection handed to generate
MaxRows == 2

(***************************************************************************)
(* Python values                                                           *)
(***************************************************************************)
EmptyMap == [x \in {} |-> "None"]

Put(f, k, val) == [x \in (DOMAIN f) \cup {k} |-> IF x = k THEN val ELSE f[x]]

SeqRange(s) == {s[i] : i \in 1..Len(s)}

\* bool(v): None, False and 0 are falsy, every other value used here is truthy
Truthy(v) == v \notin {"None", "False", "0", ""}

PyBool(b) == IF b THEN "True" ELSE "False"

\* ==: bool is a subclass of int, so True == 1 and False == 0
PyNum(v) == IF v = "True" THEN "1" ELSE IF v = "False" THEN "0" ELSE v

PyEq(a, b) == PyNum(a) = PyNum(b)

\* Optional[List[str]] / Optional[str] arguments, with the Python type the
\* caller actually passed
NoneList == [tag |-> "NoneType", v |-> <<>>]
ListOf(s) == [tag |-> "list", v |-> s]
NoneStr == [tag |-> "NoneType", s |-> ""]
StrOf(s) == [tag |-> "str", s |-> s]

\* truth value of an optional list / optional str ("x or y")
TruthyList(a) == a.tag \notin {"NoneType"} /\ Len(a.v) > 0
TruthyStr(a) == a.tag \notin {"NoneType"} /\ a.s # ""

(***************************************************************************)
(* Rows: a dict, or a pandas Series (attribute-style record)               *)
(***************************************************************************)
DictRow(f) == [kind |-> "dict", fields |-> f]
SeriesRow(f) == [kind |-> "Series", fields |-> f]

\* isinstance(inp, (dict, pd.DataFrame, Dataset))
IsMappingLike(inp) == inp.kind \in {"dict", "DataFrame", "Dataset"}

\* inp.get(key): None for a missing key
DictGet(inp, key) == IF key \in DOMAIN inp.fields THEN inp.fields[key] ELSE "None"

get_row_name(gen_inst) ==
    IF gen_inst.kind = "dict"
    THEN [status |-> "ok", val |-> DictGet(gen_inst, "task_name")]
    ELSE IF "task_name" \in DOMAIN gen_inst.fields
         THEN [status |-> "ok", val |-> gen_inst.fields["task_name"]]
         ELSE [status |-> "AttributeError", val |-> "None"]

(***************************************************************************)
(* BaseBlock.__init__ and BaseValidatorBlock.__init__                      *)
(***************************************************************************)
NoBlock ==
    [state |-> "none", error |-> "", name |-> "None", block_type |-> "None",
     arg_fields |-> NoneList, kwarg_fields |-> NoneList,
     result_field |-> NoneStr, filter |-> FALSE, validate |-> "None"]

\* mutant: the isinstance check of result_field is missing
BaseBlock_init_unchecked_result(self, name, type, arg_fields, kwarg_fields, result_field) ==
    IF arg_fields.tag \notin {"list", "NoneType"}
    THEN [self EXCEPT !.state = "failed",
                      !.error = "arg_fields must be of type 'list'"]
    ELSE IF kwarg_fields.tag \notin {"list", "NoneType"}
    THEN [self EXCEPT !.state = "failed",
                      !.error = "kwarg_fields must be of type 'list'"]
    ELSE [self EXCEPT !.state = "built",
                      !.name = name,
                      !.block_type = type,
                      !.arg_fields = arg_fields,
                      !.kwarg_fields = kwarg_fields,
                      !.result_field = result_field]

BaseBlock_init(self, name, type, arg_fields, kwarg_fields, result_field) ==
    IF arg_fields.tag \notin {"list", "NoneType"}
    THEN [self EXCEPT !.state = "failed",
                      !.error = "arg_fields must be of type 'list'"]
    ELSE IF kwarg_fields.tag \notin {"list", "NoneType"}
    THEN [self EXCEPT !.state = "failed",
                      !.error = "kwarg_fields must be of type 'list'"]
    ELSE IF result_field.tag \notin {"str", "NoneType"}
    THEN [self EXCEPT !.state = "failed",
                      !.error = "result_field must be of type 'str'"]
    ELSE [self EXCEPT !.state = "built",
                      !.name = name,
                      !.block_type = type,
                      !.arg_fields = arg_fields,
                      !.kwarg_fields = kwarg_fields,
                      !.result_field = result_field]

\* validate names the _validate override of the concrete subclass
BaseValidatorBlock_init(filter, validate, name, type, arg_fields, kwarg_fields, result_field) ==
    LET b == BaseBlock_init(NoBlock, name, type, arg_fields, kwarg_fields, result_field)
    IN  IF b.state = "failed" THEN b
        ELSE [b EXCEPT !.filter = filter, !.validate = validate]

(***************************************************************************)
(* BaseBlock.get_args_kwargs / write_result / get_result                   *)
(***************************************************************************)
\* arg_fields or self.arg_fields or []
EffectiveFields(override, stored) ==
    IF TruthyList(override) THEN override.v
    ELSE IF TruthyList(stored) THEN stored.v
    ELSE <<>>

get_args_kwargs(self, inp, arg_fields, kwarg_fields) ==
    LET af == EffectiveFields(arg_fields, self.arg_fields)
        kf == EffectiveFields(kwarg_fields, self.kwarg_fields)
    IN  IF IsMappingLike(inp)
        THEN [status |-> "ok",
              args |-> [i \in 1..Len(af) |-> DictGet(inp, af[i])],
              kwargs |-> [k \in SeqRange(kf) |-> DictGet(inp, k)]]
        ELSE [status |-> "TypeError", args |-> <<>>, kwargs |-> EmptyMap]

\* result_field or self.result_field
ResolveResultField(override, stored) ==
    IF TruthyStr(override) THEN override ELSE stored

\* mutant: the per-call result_field is ignored
write_result_stored_field(self, inp, res, result_field) ==
    LET rf == self.result_field
    IN  IF rf.tag = "NoneType"
        THEN [status |-> "AssertionError", row |-> inp]
        ELSE IF IsMappingLike(inp)
        THEN [status |-> "ok", row |-> [inp EXCEPT !.fields = Put(@, rf.s, res)]]
        ELSE [status |-> "TypeError", row |-> inp]

\* mutant: the row is emptied before the result is stored
write_result_replaces_row(self, inp, res, result_field) ==
    LET rf == ResolveResultField(result_field, self.result_field)
    IN  IF rf.tag = "NoneType"
        THEN [status |-> "AssertionError", row |-> inp]
        ELSE IF IsMappingLike(inp)
        THEN [status |-> "ok", row |-> [inp EXCEPT !.fields = Put(EmptyMap, rf.s, res)]]
        ELSE [status |-> "TypeError", row |-> inp]

write_result(self, inp, res, result_field) ==
    LET rf == ResolveResultField(result_field, self.result_field)
    IN  IF rf.tag = "NoneType"
        THEN [status |-> "AssertionError", row |-> inp]
        ELSE IF IsMappingLike(inp)
        THEN [status |-> "ok", row |-> [inp EXCEPT !.fields = Put(@, rf.s, res)]]
        ELSE [status |-> "TypeError", row |-> inp]

get_result(self, inp, result_field) ==
    LET rf == ResolveResultField(result_field, self.result_field)
    IN  IF rf.tag = "NoneType"
        THEN [status |-> "AssertionError", val |-> "None"]
        ELSE IF IsMappingLike(inp)
        THEN IF rf.s \in DOMAIN inp.fields
             THEN [status |-> "ok", val |-> inp.fields[rf.s]]
             ELSE [status |-> "KeyError", val |-> "None"]
        ELSE [status |-> "TypeError", val |-> "None"]

(***************************************************************************)
(* _validate: abstract in BaseValidatorBlock.  The overrides a subclass    *)
(* may supply are inputs of the model:                                     *)
(*   eq_one   x = args[0] if args else None;  return x == 1                *)
(*   negate   x = args[0] if args else None;  return not x                 *)
(*   require  v = kwargs.get("v"); raise ValueError if v is None; return v *)
(***************************************************************************)
Validators == {"eq_one", "negate", "require"}

FirstArg(args) == IF Len(args) > 0 THEN args[1] ELSE "None"

validate(self, args, kwargs) ==
    IF self.validate = "eq_one"
    THEN [status |-> "ok", val |-> PyBool(PyEq(FirstArg(args), "1"))]
    ELSE IF self.validate = "negate"
    THEN [status |-> "ok", val |-> PyBool(~Truthy(FirstArg(args)))]
    ELSE IF "v" \in DOMAIN kwargs /\ kwargs["v"] # "None"
    THEN [status |-> "ok", val |-> kwargs["v"]]
    ELSE [status |-> "ValueError", val |-> "None"]

(***************************************************************************)
(* BaseValidatorBlock.generate                                             *)
(***************************************************************************)
\* mutant: the exception is swallowed and the rows kept so far are returned
Raised_swallowed(exc, rs, i, outputs, verdicts, n) ==
    [status |-> "ok", rows |-> rs, outputs |-> outputs, kept |-> outputs,
     verdicts |-> verdicts, nvalidate |-> n, failedAt |-> 0]

\* an exception leaves the loop at row i: nothing is returned
Raised(exc, rs, i, outputs, verdicts, n) ==
    [status |-> exc, rows |-> rs, outputs |-> <<>>, kept |-> outputs,
     verdicts |-> verdicts, nvalidate |-> n, failedAt |-> i]

\* mutant: "if res", invalid rows are dropped whatever the flag
Retains_always_filters(self, res) == Truthy(res)

\* mutant: "if res or self._filter_invalids", the flag is read the wrong way round
Retains_flag_inverted(self, res) == Truthy(res) \/ self.filter

\* if res or not self._filter_invalids
Retains(self, res) == Truthy(res) \/ ~self.filter

RECURSIVE GenerateLoop_writes_first(_, _, _, _, _, _, _, _)
\* mutant: the verdict is written before the filter decides, so dropped rows
\* are annotated too
GenerateLoop_writes_first(self, rs, i, outputs, verdicts, arg_fields, kwarg_fields, result_field) ==
    IF i > Len(rs)
    THEN [status |-> "ok", rows |-> rs, outputs |-> outputs, kept |-> outputs,
          verdicts |-> verdicts, nvalidate |-> Len(verdicts), failedAt |-> 0]
    ELSE LET p == get_args_kwargs(self, rs[i], arg_fields, kwarg_fields)
             r == validate(self, p.args, p.kwargs)
             w == write_result(self, rs[i], r.val, result_field)
         IN  IF p.status # "ok"
             THEN Raised(p.status, rs, i, outputs, verdicts, Len(verdicts))
             ELSE IF r.status # "ok"
             THEN Raised(r.status, rs, i, outputs, verdicts, Len(verdicts) + 1)
             ELSE IF w.status # "ok"
             THEN Raised(w.status, rs, i, outputs, Append(verdicts, r.val),
                         Len(verdicts) + 1)
             ELSE GenerateLoop_writes_first(
                      self, [rs EXCEPT ![i] = w.row], i + 1,
                      IF Retains(self, r.val) THEN Append(outputs, i) ELSE outputs,
                      Append(verdicts, r.val), arg_fields, kwarg_fields, result_field)

RECURSIVE GenerateLoop(_, _, _, _, _, _, _, _)
\* the for loop from row i on; rs are the rows as mutated so far, outputs the
\* list built so far (row indices), verdicts what _validate returned so far
GenerateLoop(self, rs, i, outputs, verdicts, arg_fields, kwarg_fields, result_field) ==
    IF i > Len(rs)
    THEN [status |-> "ok", rows |-> rs, outputs |-> outputs, kept |-> outputs,
          verdicts |-> verdicts, nvalidate |-> Len(verdicts), failedAt |-> 0]
    ELSE LET p == get_args_kwargs(self, rs[i], arg_fields, kwarg_fields)
             r == validate(self, p.args, p.kwargs)
             w == write_result(self, rs[i], r.val, result_field)
         IN  IF p.status # "ok"
             THEN Raised(p.status, rs, i, outputs, verdicts, Len(verdicts))
             ELSE IF r.status # "ok"
             THEN Raised(r.status, rs, i, outputs, verdicts, Len(verdicts) + 1)
             ELSE IF Retains(self, r.val)
             THEN IF w.status # "ok"
                  THEN Raised(w.status, rs, i, outputs, Append(verdicts, r.val),
                              Len(verdicts) + 1)
                  ELSE GenerateLoop(self, [rs EXCEPT ![i] = w.row], i + 1,
                                    Append(outputs, i), Append(verdicts, r.val),
                                    arg_fields, kwarg_fields, result_field)
             ELSE GenerateLoop(self, rs, i + 1, outputs, Append(verdicts, r.val),
                               arg_fields, kwarg_fields, result_field)

generate(self, inputs, arg_fields, kwarg_fields, result_field) ==
    GenerateLoop(self, inputs, 1, <<>>, <<>>, arg_fields, kwarg_fields, result_field)

(***************************************************************************)
(* Inputs                                                                  *)
(***************************************************************************)
\* field lists and result fields the accessors are called with
ListOpts == {NoneList, ListOf(<<>>), ListOf(<<"v">>)}

ResultOpts == {NoneStr, StrOf(""), StrOf("r"), StrOf("v")}

\* field lists and result fields generate is configured and called with
GenListOpts == {NoneList, ListOf(<<"v">>)}

GenResultOpts == {NoneStr, StrOf("r"), StrOf("v")}

\* what a caller may pass the constructor, wrongly typed values included
CtorListArgs == GenListOpts \cup {[tag |-> "str", v |-> <<>>], [tag |-> "tuple", v |-> <<>>]}

CtorStrArgs == GenResultOpts \cup {[tag |-> "int", s |-> ""], [tag |-> "list", s |-> ""]}

RowPool ==
    {DictRow("v" :> "0"), DictRow("v" :> "1"), DictRow(EmptyMap), SeriesRow("v" :> "1")}

Collections == UNION {[1..n -> RowPool] : n \in 0..MaxRows}

\* the row the accessors are applied to
AccessRows ==
    {DictRow("v" :> "1"), DictRow("task_name" :> "t" @@ "v" :> "0" @@ "r" :> "1"),
     SeriesRow("v" :> "1"), SeriesRow("task_name" :> "t" @@ "v" :> "1")}

ResValues == {"True", "False"}

(***************************************************************************)
(* State                                                                   *)
(***************************************************************************)
\* the record of the latest call: what was passed and what came back
NoCall ==
    [op |-> "none", status |-> "none", row |-> 0,
     af |-> NoneList, kf |-> NoneList, rf |-> NoneStr, res |-> "None",
     args |-> <<>>, kwargs |-> EmptyMap, val |-> "None",
     outputs |-> <<>>, kept |-> <<>>, verdicts |-> <<>>, nvalidate |-> 0,
     failedAt |-> 0, pre |-> <<>>]

NoWrites(rs) == [i \in 1..Len(rs) |-> EmptyMap]

Init ==
    /\ blk = NoBlock
    /\ rows \in Collections
    /\ last = NoCall
    /\ prev = NoCall
    /\ written = NoWrites(rows)

InitRow ==
    /\ \E af \in ListOpts, kf \in ListOpts, rf \in ResultOpts :
          blk = BaseValidatorBlock_init(FALSE, "eq_one", "blk", "validator", af, kf, rf)
    /\ \E r \in AccessRows : rows = <<r>>
    /\ last = NoCall
    /\ prev = NoCall
    /\ written = NoWrites(rows)

(***************************************************************************)
(* Actions                                                                 *)
(***************************************************************************)
Construct(filter, v, af, kf, rf) ==
    /\ blk.state = "none"
    /\ blk' = BaseValidatorBlock_init(filter, v, "blk", "validator", af, kf, rf)
    /\ last' = [NoCall EXCEPT !.op = "init",
                              !.status = IF blk'.state = "built" THEN "ok" ELSE "TypeError",
                              !.af = af, !.kf = kf, !.rf = rf]
    /\ UNCHANGED <<rows, prev, written>>

GetArgsKwargs(i, af, kf) ==
    /\ blk.state = "built"
    /\ i \in 1..Len(rows)
    /\ LET p == get_args_kwargs(blk, rows[i], af, kf)
       IN  last' = [NoCall EXCEPT !.op = "get_args_kwargs", !.status = p.status,
                                  !.row = i, !.af = af, !.kf = kf,
                                  !.args = p.args, !.kwargs = p.kwargs, !.pre = rows]
    /\ UNCHANGED <<blk, rows, prev, written>>

WriteResult(i, res, rf) ==
    /\ blk.state = "built"
    /\ i \in 1..Len(rows)
    /\ LET w == write_result(blk, rows[i], res, rf)
           f == ResolveResultField(rf, blk.result_field)
       IN  /\ rows' = [rows EXCEPT ![i] = w.row]
           /\ last' = [NoCall EXCEPT !.op = "write_result", !.status = w.status,
                                     !.row = i, !.rf = rf, !.res = res, !.pre = rows]
           /\ written' = IF w.status = "ok"
                         THEN [written EXCEPT ![i] = Put(@, f.s, res)]
                         ELSE written
    /\ UNCHANGED <<blk, prev>>

GetResult(i, rf) ==
    /\ blk.state = "built"
    /\ i \in 1..Len(rows)
    /\ LET g == get_result(blk, rows[i], rf)
       IN  last' = [NoCall EXCEPT !.op = "get_result", !.status = g.status,
                                  !.row = i, !.rf = rf, !.val = g.val, !.pre = rows]
    /\ UNCHANGED <<blk, rows, prev, written>>

GetRowName(i) ==
    /\ i \in 1..Len(rows)
    /\ LET g == get_row_name(rows[i])
       IN  last' = [NoCall EXCEPT !.op = "get_row_name", !.status = g.status,
                                  !.row = i, !.val = g.val, !.pre = rows]
    /\ UNCHANGED <<blk, rows, prev, written>>

Generate(af, kf, rf) ==
    /\ blk.state = "built"
    /\ LET g == generate(blk, rows, af, kf, rf)
           f == ResolveResultField(rf, blk.result_field)
       IN  /\ rows' = g.rows
           /\ last' = [NoCall EXCEPT !.op = "generate", !.status = g.status,
                                     !.af = af, !.kf = kf, !.rf = rf,
                                     !.outputs = g.outputs, !.kept = g.kept,
                                     !.verdicts = g.verdicts,
                                     !.nvalidate = g.nvalidate,
                                     !.failedAt = g.failedAt, !.pre = rows]
           /\ written' = [i \in 1..Len(rows) |->
                            IF i \in SeqRange(g.kept)
                            THEN Put(written[i], f.s, g.verdicts[i])
                            ELSE written[i]]
    /\ prev' = last
    /\ UNCHANGED blk

\* the caller's first generate call on the collection
Call ==
    /\ last.op = "init"
    /\ \E af \in GenListOpts, kf \in GenListOpts, rf \in GenResultOpts :
          Generate(af, kf, rf)

\* the caller calls generate again on the same collection with the same overrides
CallAgain ==
    /\ last.op = "generate"
    /\ Generate(last.af, last.kf, last.rf)

New ==
    \E filter \in BOOLEAN, v \in Validators,
       af \in CtorListArgs, kf \in CtorListArgs, rf \in CtorStrArgs :
          Construct(filter, v, af, kf, rf)

Next == New \/ Call \/ CallAgain

Spec == Init /\ [][Next]_vars

Project == \E i \in 1..Len(rows), af \in ListOpts, kf \in ListOpts : GetArgsKwargs(i, af, kf)

Commit == \E i \in 1..Len(rows), res \in ResValues, rf \in ResultOpts : WriteResult(i, res, rf)

Read == \E i \in 1..Len(rows), rf \in ResultOpts : GetResult(i, rf)

RowName == \E i \in 1..Len(rows) : GetRowName(i)

NextRow == Project \/ Commit \/ Read \/ RowName

SpecRow == InitRow /\ [][NextRow]_vars

(***************************************************************************)
(* Vocabulary of the properties                                            *)
(***************************************************************************)
Returned == last.op = "generate" /\ last.status = "ok"

\* the result field the latest call resolved
CallField == ResolveResultField(last.rf, blk.result_field)

\* the arguments _validate got for row i of the latest generate call, and
\* what it answered
Projected(i) == get_args_kwargs(blk, last.pre[i], last.af, last.kf)

Verdict(i) == validate(blk, Projected(i).args, Projected(i).kwargs)

\* how the loop body ends on row i: "ok", or the exception it raises
RowOutcome(i) ==
    IF Projected(i).status # "ok" THEN Projected(i).status
    ELSE IF Verdict(i).status # "ok" THEN Verdict(i).status
    ELSE IF Retains(blk, Verdict(i).val)
    THEN write_result(blk, last.pre[i], Verdict(i).val, last.rf).status
    ELSE "ok"

HasField(row, f, val) == f \in DOMAIN row.fields /\ row.fields[f] = val

\* row and old agree on everything but field f
SameButField(row, old, f) ==
    /\ row.kind = old.kind
    /\ (DOMAIN row.fields) \ {f} = (DOMAIN old.fields) \ {f}
    /\ \A g \in (DOMAIN old.fields) \ {f} : row.fields[g] = old.fields[g]

RECURSIVE TruthyIndices(_)
\* the indices 1..n of the rows with a truthy verdict, ascending
TruthyIndices(n) ==
    IF n = 0 THEN <<>>
    ELSE IF Truthy(Verdict(n).val)
    THEN Append(TruthyIndices(n - 1), n)
    ELSE TruthyIndices(n - 1)

AllMappingRows == \A i \in 1..Len(last.pre) : last.pre[i].kind = "dict"

ValidateAnswersAll == \A i \in 1..Len(last.pre) : Verdict(i).status = "ok"

(***************************************************************************)
(* C1: with filter=False, a resolved result field and mapping-style rows   *)
(* for which _validate answers, generate returns every input row, in       *)
(* input order, and each row's result field holds the verdict _validate    *)
(* returned for it, truthy or falsy.                                       *)
(***************************************************************************)
C1_Case ==
    /\ last.op = "generate"
    /\ ~blk.filter
    /\ CallField.tag = "str"
    /\ AllMappingRows
    /\ ValidateAnswersAll

C1_FilterOffAnnotatesAll ==
    C1_Case =>
        /\ last.status = "ok"
        /\ Len(rows) = Len(last.pre)
        /\ last.outputs = [i \in 1..Len(last.pre) |-> i]
        /\ \A i \in 1..Len(rows) :
              /\ last.verdicts[i] = Verdict(i).val
              /\ HasField(rows[i], CallField.s, Verdict(i).val)

C1_Witness ==
    /\ C1_Case
    /\ Len(rows) = 2
    /\ Truthy(Verdict(1).val)
    /\ ~Truthy(Verdict(2).val)
    /\ last.outputs = <<1, 2>>

(***************************************************************************)
(* C2: with filter=True, the list generate returns is exactly the          *)
(* subsequence of the input rows whose verdict is truthy, in input order,  *)
(* and each returned row carries its verdict in the result field.          *)
(***************************************************************************)
C2_FilterOnKeepsTruthy ==
    (Returned /\ blk.filter) =>
        /\ last.outputs = TruthyIndices(Len(last.pre))
        /\ \A j \in 1..Len(last.outputs) :
              HasField(rows[last.outputs[j]], CallField.s, Verdict(last.outputs[j]).val)

C2_Witness ==
    /\ Returned
    /\ blk.filter
    /\ Len(rows) = 2
    /\ ~Truthy(Verdict(1).val)
    /\ Truthy(Verdict(2).val)
    /\ last.outputs = <<2>>

(***************************************************************************)
(* C3: generate writes only the resolved result field: a row dropped by    *)
(* filtering is after the call what it was before it, and a retained row   *)
(* differs from what it was at most in the result field.                   *)
(***************************************************************************)
C3_WritesOnlyResultField ==
    last.op = "generate" =>
        /\ Len(rows) = Len(last.pre)
        /\ \A i \in 1..Len(rows) :
              /\ i \notin SeqRange(last.kept) => rows[i] = last.pre[i]
              /\ i \in SeqRange(last.kept) => SameButField(rows[i], last.pre[i], CallField.s)
              /\ (Returned /\ blk.filter /\ ~Truthy(Verdict(i).val)) =>
                    /\ i \notin SeqRange(last.outputs)
                    /\ rows[i] = last.pre[i]

C3_Witness ==
    /\ Returned
    /\ blk.filter
    /\ Len(rows) = 2
    /\ last.outputs = <<1>>
    /\ rows[1] # last.pre[1]
    /\ DOMAIN last.pre[1].fields # {CallField.s}
    /\ CallField.s \in DOMAIN last.pre[2].fields
    /\ rows[2] = last.pre[2]

(***************************************************************************)
(* C4: get_args_kwargs uses the per-call list whenever one is supplied,    *)
(* the empty list included, else the stored list, else the empty list;     *)
(* it returns one positional value per effective arg field, in order, and  *)
(* one keyword entry per effective kwarg field; the row is not changed.    *)
(***************************************************************************)
\* the field list the claim calls effective
SuppliedFields(override, stored) ==
    IF override.tag = "list" THEN override.v
    ELSE IF stored.tag = "list" THEN stored.v
    ELSE <<>>

C4_OverrideListAlwaysUsed ==
    (last.op = "get_args_kwargs" /\ last.status = "ok") =>
        LET af == SuppliedFields(last.af, blk.arg_fields)
            kf == SuppliedFields(last.kf, blk.kwarg_fields)
            inp == last.pre[last.row]
        IN  /\ last.args = [i \in 1..Len(af) |-> DictGet(inp, af[i])]
            /\ last.kwargs = [k \in SeqRange(kf) |-> DictGet(inp, k)]
            /\ rows = last.pre

(***************************************************************************)
(* C5: get_result with a result field returns the value write_result most  *)
(* recently wrote to that field of the row; writes to another field of the *)
(* row do not change it.                                                   *)
(***************************************************************************)
C5_ReadsLatestWrite ==
    \A i \in 1..Len(rows) : \A rf \in ResultOpts :
        LET f == ResolveResultField(rf, blk.result_field)
        IN  (f.tag = "str" /\ f.s \in DOMAIN written[i]) =>
                get_result(blk, rows[i], rf) = [status |-> "ok", val |-> written[i][f.s]]

C5_Witness ==
    /\ last.op = "write_result"
    /\ last.status = "ok"
    /\ CallField.s \in DOMAIN written[1]
    /\ CallField.s \in DOMAIN last.pre[1].fields
    /\ last.pre[1].fields[CallField.s] # last.res
    /\ \E g \in DOMAIN written[1] : g # CallField.s /\ written[1][g] # last.res

(***************************************************************************)
(* C6: write_result and get_result raise the unresolved-result-field       *)
(* error, leaving the row as it was, when no result field is given at      *)
(* construction nor in the call; when either source supplies one the error *)
(* is not raised.                                                          *)
(***************************************************************************)
C6_UnresolvedIffNoneSupplied ==
    last.op \in {"write_result", "get_result"} =>
        /\ (last.rf.tag = "NoneType" /\ blk.result_field.tag = "NoneType") =>
              (last.status = "AssertionError" /\ rows = last.pre)
        /\ (last.rf.tag = "str" \/ blk.result_field.tag = "str") =>
              last.status # "AssertionError"

(***************************************************************************)
(* C7: construction succeeds iff arg_fields and kwarg_fields are lists or  *)
(* absent and result_field is a string or absent; otherwise it raises a    *)
(* TypeError naming the first offending argument in the order arg_fields,  *)
(* kwarg_fields, result_field, nothing is stored, and no generate call     *)
(* ever runs on the block.                                                 *)
(***************************************************************************)
ListTyped(a) == a.tag \in {"list", "NoneType"}

StrTyped(a) == a.tag \in {"str", "NoneType"}

FirstOffender(af, kf, rf) ==
    IF ~ListTyped(af) THEN "arg_fields"
    ELSE IF ~ListTyped(kf) THEN "kwarg_fields"
    ELSE "result_field"

C7_ConstructionTypeChecked ==
    /\ last.op = "init" =>
          /\ blk.state \in {"built", "failed"}
          /\ blk.state = "built" <=>
                (ListTyped(last.af) /\ ListTyped(last.kf) /\ StrTyped(last.rf))
          /\ blk.state = "built" =>
                /\ blk.arg_fields = last.af
                /\ blk.kwarg_fields = last.kf
                /\ blk.result_field = last.rf
                /\ last.status = "ok"
          /\ blk.state = "failed" =>
                /\ last.status = "TypeError"
                /\ blk.error = FirstOffender(last.af, last.kf, last.rf)
                                  \o " must be of type '"
                                  \o (IF FirstOffender(last.af, last.kf, last.rf) = "result_field"
                                      THEN "str" ELSE "list")
                                  \o "'"
                /\ [blk EXCEPT !.state = "none", !.error = ""] = NoBlock
    /\ last.op = "generate" =>
          /\ blk.state = "built"
          /\ ListTyped(blk.arg_fields)
          /\ ListTyped(blk.kwarg_fields)
          /\ StrTyped(blk.result_field)

C7_Witness ==
    /\ last.op = "init"
    /\ blk.state = "failed"
    /\ ListTyped(last.af)
    /\ ~ListTyped(last.kf)
    /\ ~StrTyped(last.rf)
    /\ blk.error = "kwarg_fields must be of type 'list'"

(***************************************************************************)
(* C8: a mapping-style row and an attribute-style row with the same fields *)
(* and values project to the same values through get_args_kwargs, neither  *)
(* of them to an error.                                                    *)
(***************************************************************************)
C8_SeriesProjectsLikeDict ==
    (/\ last.op = "get_args_kwargs"
     /\ last.pre[last.row].kind = "Series"
     /\ SeqRange(EffectiveFields(last.af, blk.arg_fields)) \subseteq DOMAIN last.pre[last.row].fields
     /\ SeqRange(EffectiveFields(last.kf, blk.kwarg_fields)) \subseteq DOMAIN last.pre[last.row].fields) =>
        LET d == get_args_kwargs(blk, DictRow(last.pre[last.row].fields), last.af, last.kf)
        IN  /\ last.status = d.status
            /\ last.args = d.args
            /\ last.kwargs = d.kwargs

(***************************************************************************)
(* C9: two generate calls in succession on the same rows with the same     *)
(* overrides end the same way, return the same rows in the same order, and *)
(* leave the same result-field values.                                     *)
(***************************************************************************)
SecondCall == prev.op = "generate" /\ last.op = "generate"

SameAsFirstCall ==
    /\ last.status = prev.status
    /\ last.outputs = prev.outputs
    /\ \A j \in 1..Len(last.outputs) :
          /\ CallField.s \in DOMAIN last.pre[last.outputs[j]].fields
          /\ HasField(rows[last.outputs[j]], CallField.s,
                      last.pre[last.outputs[j]].fields[CallField.s])

\* the original statement: for every choice of fields
C9_RepeatIsIdentical == SecondCall => SameAsFirstCall

\* the result field is none of the fields _validate's arguments are read from
ResultFieldNotAnInput ==
    \/ CallField.tag = "NoneType"
    \/ CallField.s \notin SeqRange(EffectiveFields(last.af, blk.arg_fields))
                            \cup SeqRange(EffectiveFields(last.kf, blk.kwarg_fields))

\* as amended: when the result field is not an input of _validate
C9_RepeatIsIdenticalOffInputs ==
    (SecondCall /\ ResultFieldNotAnInput) => SameAsFirstCall

C9_Witness ==
    /\ SecondCall
    /\ ResultFieldNotAnInput
    /\ last.status = "ok"
    /\ blk.filter
    /\ Len(rows) = 2
    /\ Len(last.outputs) = 1
    /\ rows # prev.pre

(***************************************************************************)
(* C10: when the loop body raises on row k, generate ends with that        *)
(* exception and returns nothing, _validate is invoked for no row after    *)
(* k, rows k and later are as they were, and the rows before k that were   *)
(* retained keep the verdict written into their result field.              *)
(***************************************************************************)
FirstFailure(k) ==
    /\ k \in 1..Len(last.pre)
    /\ RowOutcome(k) # "ok"
    /\ \A i \in 1..(k - 1) : RowOutcome(i) = "ok"

C10_FailureAbortsWithoutRollback ==
    last.op = "generate" =>
        \A k \in 1..Len(last.pre) :
            FirstFailure(k) =>
                /\ last.status = RowOutcome(k)
                /\ last.failedAt = k
                /\ last.outputs = <<>>
                /\ last.nvalidate <= k
                /\ Len(last.verdicts) <= k
                /\ \A i \in k..Len(rows) : rows[i] = last.pre[i]
                /\ \A i \in 1..(k - 1) :
                      Retains(blk, Verdict(i).val) =>
                          /\ i \in SeqRange(last.kept)
                          /\ HasField(rows[i], CallField.s, Verdict(i).val)

C10_Witness ==
    /\ last.op = "generate"
    /\ FirstFailure(2)
    /\ last.status # "ok"
    /\ last.kept = <<1>>
    /\ rows[1] # last.pre[1]
    /\ rows[2] = last.pre[2]

====
